---- MODULE Spec2Model ----
(***************************************************************************)
(* The pipeline orchestrator of the desktop shell (gui/main.js): the       *)
(* 'run-script' handler that runs the selected stages as api.py            *)
(* subprocesses one after the other, the 'stop-script' handler, the        *)
(* in-flight process set and terminateActiveProcesses, the listeners on a  *)
(* child's stdout and stderr, and the quit confirmation; and the stages    *)
(* that run inside the children, over the Progress Ledger and the          *)
(* destination tree.                                                       *)
(*                                                                         *)
(* A JavaScript handler runs to its next await without interleaving, so    *)
(* every action below is one handler run from its event to the point where *)
(* it returns or suspends.  The continuation of `await runApi(...)` is a   *)
(* microtask of the child's 'exit' event and belongs to that action.       *)
(***************************************************************************)
EXTENDS Integers, Sequences, FiniteSets, TLC

\* ------------------------------------------------------------------ bounds
MaxRuns == 1          \* run-script requests in one behaviour of Spec
MaxRaceRuns == 2      \* run-script requests in one behaviour of SpecRace
MaxItems == 2         \* work items of the download stage in SpecStop
MaxStream == 3        \* characters a child writes to its stdout in SpecLog
MaxReruns == 2        \* run-script requests in one behaviour of SpecRerun

\* The exit code Node reports (null) for a child that a signal killed.
NullCode == 256

VARIABLES
    platform,          \* process.platform: "win32" or "posix"
    payload,           \* the workflow payload the renderer sends with run-script
    stopRequested,     \* main.js:9
    activeProcesses,   \* main.js:8, a set of indexes into procs
    procs,             \* every child process spawned so far, in spawn order
    runs,              \* every run-script invocation so far, in arrival order
    items,             \* the download stage's work items on disk and in the Ledger
    isQuitting,        \* main.js:7
    mainWindow,        \* main.js:6, "open" or "closed"
    quitEvent,         \* what became of the last 'close' or 'before-quit' event
    app,               \* the main process: "ready", or "quit" once it has ended
    env,               \* process.env: USERPROFILE and HOME, "" when not set
    existing,          \* the paths that exist, of those the interpreter choice reads
    pythonCommand,     \* the interpreter the last run-script has chosen
    isRunning,         \* page.tsx:19, the renderer's isRunning state
    requested,         \* the run-script requests the renderer has sent
    handledExits,      \* the script-exit replies of runs the renderer has handled
    stdout,            \* the chunks a child's stdout has yet to deliver
    stderr,            \* the chunks a child's stderr has yet to deliver
    scriptLog,         \* the script-log replies of runApi's 'data' listeners
    ledger,            \* the Progress Ledger: the stages done, per work item
    disk,              \* the artifacts in the destination tree, per work item
    units,             \* the unit of work a stage child has in hand, per work item
    work,              \* <<child, item>>: the units of work a stage child started
    errors             \* <<child, item>>: the Error Records a stage child wrote

quitVars == <<isQuitting, mainWindow, quitEvent, app>>
hostVars == <<env, existing, pythonCommand>>
uiVars == <<isRunning, requested, handledExits>>
logVars == <<stdout, stderr, scriptLog>>
pipeVars == <<ledger, disk, units, work, errors>>

vars == <<platform, payload, stopRequested, activeProcesses, procs, runs, items,
          quitVars, hostVars, uiVars, logVars, pipeVars>>

\* ------------------------------------------------------- inputs of a run
Platforms == {"win32", "posix"}
HtmlFiles == {"", "memories.html"}        \* "" is no file chosen (null)
Folders == {"", "out"}                    \* "" is no folder chosen (null)
WorkerCounts == {0, 2}                    \* 0 is no count given (undefined)

Payloads ==
    [htmlFile : HtmlFiles, downloadFolder : Folders,
     runDownload : BOOLEAN, runMetadata : BOOLEAN,
     runCombine : BOOLEAN, runDedupe : BOOLEAN,
     dryRun : BOOLEAN, workerCount : WorkerCounts]

Commands == {"download", "metadata", "combine", "dedupe"}
SingleCommands == {"download"}            \* the commands sent in single mode

\* Whether payload p selects the stage of command c.
Selects(p, c) ==
    CASE c = "download" -> p.runDownload
      [] c = "metadata" -> p.runMetadata
      [] c = "combine" -> p.runCombine
      [] c = "dedupe" -> p.runDedupe

\* The payloads of SpecRace: every stage selection, with and without an HTML
\* file (the other fields do not reach the control flow).
RacePayloads ==
    {p \in Payloads : p.downloadFolder = "out" /\ p.workerCount = 2 /\ ~p.dryRun}

\* The payloads of SpecStop: a download with a worker pool into a folder.
StopPayloads ==
    {p \in Payloads : /\ p.runDownload /\ ~p.runMetadata /\ ~p.runCombine /\ ~p.runDedupe
                      /\ p.htmlFile # "" /\ p.downloadFolder = "out"
                      /\ p.workerCount # 0}

\* ------------------------------------------- the steps of a workflow run
dryRunArgs(dryRun) == IF dryRun THEN <<"--dry-run">> ELSE <<"--no-dry-run">>

workerArgs(workerCount) ==
    IF workerCount # 0 THEN <<"--workers", ToString(workerCount)>> ELSE <<>>

withOutput(downloadFolder, args) ==
    IF downloadFolder # "" THEN args \o <<"--output", downloadFolder>> ELSE args

DownloadStep(p) ==
    [label |-> "Download Memories", command |-> "download",
     args |-> withOutput(p.downloadFolder, <<p.htmlFile>> \o workerArgs(p.workerCount))]

\* Mutant: the metadata step built without the worker arguments.
MetadataStepNoWorkers(p) ==
    [label |-> "Add GPS Metadata", command |-> "metadata",
     args |-> withOutput(p.downloadFolder, <<p.htmlFile>>)]

MetadataStep(p) ==
    [label |-> "Add GPS Metadata", command |-> "metadata",
     args |-> withOutput(p.downloadFolder, <<p.htmlFile>> \o workerArgs(p.workerCount))]

CombineStep(p) ==
    [label |-> "Combine Overlays", command |-> "combine",
     args |-> withOutput(p.downloadFolder, dryRunArgs(p.dryRun) \o workerArgs(p.workerCount))]

DedupeStep(p) ==
    [label |-> "Delete Duplicates", command |-> "dedupe",
     args |-> withOutput(p.downloadFolder, dryRunArgs(p.dryRun) \o workerArgs(p.workerCount))]

\* Mutant: the HTML file checked for the download step only.
HtmlMissingDownloadOnly(p) == p.runDownload /\ p.htmlFile = ""

\* The handler returns with script-exit 1 before any step runs.
HtmlMissing(p) == (p.runDownload \/ p.runMetadata) /\ p.htmlFile = ""

\* Mutant: the combine step pushed before the metadata step.
stepsCombineFirst(p) ==
    (IF p.runDownload THEN <<DownloadStep(p)>> ELSE <<>>)
    \o (IF p.runCombine THEN <<CombineStep(p)>> ELSE <<>>)
    \o (IF p.runMetadata THEN <<MetadataStep(p)>> ELSE <<>>)
    \o (IF p.runDedupe THEN <<DedupeStep(p)>> ELSE <<>>)

steps(p) ==
    (IF p.runDownload THEN <<DownloadStep(p)>> ELSE <<>>)
    \o (IF p.runMetadata THEN <<MetadataStep(p)>> ELSE <<>>)
    \o (IF p.runCombine THEN <<CombineStep(p)>> ELSE <<>>)
    \o (IF p.runDedupe THEN <<DedupeStep(p)>> ELSE <<>>)

\* Mutant: the remaining steps started together, none awaited before the next.
LaunchedAll(ss, i) == SubSeq(ss, i, Len(ss))

\* The steps one loop iteration starts before it suspends at its await.
Launched(ss, i) == <<ss[i]>>

\* --------------------------------------------------------- child processes
\* runApi's spawn: a tracked child, its promise pending.
NewProc(r, step) ==
    [run |-> r, command |-> step.command, args |-> step.args,
     state |-> "running", code |-> NullCode, signal |-> "none", timer |-> FALSE]

\* The events of a child on which runApi's promise resolves, and those on
\* which trackProcess removes the child from the in-flight set.  'close'
\* follows 'exit', once the child's stdio streams have ended; its listeners
\* then find the promise resolved and the child removed.
ResolveOn == {"close", "exit"}

\* Mutant: the in-flight set forgets a child at 'close' only.
UntrackOnClose == {"close"}

UntrackOn == {"close", "exit"}

\* What a child can exit with: its own status, or null when a signal (of the
\* host or of anyone else) ended it.
ExitCodes == {0, 1, NullCode}

InProgress(r) == runs[r].pc = "await"

\* Mutant: a failed step reported as a generic failure.
ExitReplyOne(code) == IF code = 0 THEN 0 ELSE 1

\* The script-exit replies of the handlers.
ExitReply(code) == code          \* event.reply('script-exit', code)
StopReply == -1                  \* event.reply('script-exit', -1)
Items == 1..MaxItems

\* ------------------------------------------------- the Python interpreter
\* Paths are sequences of components.  The home directory the GUI uses is
\* process.env.USERPROFILE || process.env.HOME; baseDir is the app's directory.
HomeDir == IF env.USERPROFILE # "" THEN env.USERPROFILE ELSE env.HOME
homeVenvPath == <<HomeDir, "snapchat-memories-downloader", ".venv">>
projectVenvPath == <<"baseDir", ".venv">>
VenvPython(venv) ==
    IF platform = "win32" THEN venv \o <<"Scripts", "python.exe">>
    ELSE venv \o <<"bin", "python3">>
SystemPython == IF platform = "win32" THEN <<"python">> ELSE <<"python3">>
existsSync(path) == path \in existing

\* Mutant: the project-local environment tried first.
PythonCommandProjectFirst ==
    IF existsSync(VenvPython(projectVenvPath)) THEN VenvPython(projectVenvPath)
    ELSE IF existsSync(VenvPython(homeVenvPath)) THEN VenvPython(homeVenvPath)
    ELSE SystemPython

\* pythonCommand as run-script chooses it.
PythonCommand ==
    IF existsSync(VenvPython(homeVenvPath)) THEN VenvPython(homeVenvPath)
    ELSE IF existsSync(VenvPython(projectVenvPath)) THEN VenvPython(projectVenvPath)
    ELSE SystemPython

\* The environment of a platform: its own home variable is set, the other one
\* may be.
Envs(plat) ==
    IF plat = "win32"
    THEN [USERPROFILE : {"C:/Users/me"}, HOME : {"", "/home/me"}]
    ELSE [USERPROFILE : {"", "C:/Users/me"}, HOME : {"/home/me"}]
NativeEnv(plat) ==
    IF plat = "win32" THEN [USERPROFILE |-> "C:/Users/me", HOME |-> ""]
    ELSE [USERPROFILE |-> "", HOME |-> "/home/me"]

\* installer.ps1, step 4: the virtual environment under USERPROFILE, created
\* with `python -m venv` unless its directory is there already.
InstallerVenvPath == <<env.USERPROFILE, "snapchat-memories-downloader", ".venv">>
InstallerActivate == InstallerVenvPath \o <<"Scripts", "Activate.ps1">>
InstallerPython == InstallerVenvPath \o <<"Scripts", "python.exe">>
InstallerVenv ==
    /\ platform = "win32"
    /\ InstallerVenvPath \notin existing
    /\ existing' = existing \cup {InstallerVenvPath, InstallerActivate, InstallerPython}
    /\ UNCHANGED <<platform, payload, stopRequested, activeProcesses, procs, runs, items,
                   quitVars, env, pythonCommand, uiVars, logVars, pipeVars>>

\* ------------------------------------------------------------------- Init
InitWith(ps) ==
    /\ platform \in Platforms
    /\ payload \in ps
    /\ stopRequested = FALSE
    /\ activeProcesses = {}
    /\ procs = <<>>
    /\ runs = <<>>
    /\ items = [it \in Items |-> "pending"]
    /\ isQuitting = FALSE
    /\ mainWindow = "open"
    /\ quitEvent = "none"
    /\ app = "ready"
    /\ env = NativeEnv(platform)
    /\ existing = {}
    /\ pythonCommand = <<>>
    /\ isRunning = FALSE
    /\ requested = 0
    /\ handledExits = 0

\* A pipe of a child: the chunks it delivers and the index of the next one.
Pipe(chunks) == [chunks |-> chunks, next |-> 1]
MoreOn(pipe) == pipe.next <= Len(pipe.chunks)

\* No child output to come, and an empty Ledger and destination tree.
NoOutput == stdout = Pipe(<<>>) /\ stderr = Pipe(<<>>) /\ scriptLog = <<>>
FirstRun ==
    /\ ledger = [it \in Items |-> {}]
    /\ disk = [it \in Items |-> {}]
    /\ units = [it \in Items |-> "idle"]
    /\ work = {}
    /\ errors = {}

Init == InitWith(Payloads) /\ NoOutput /\ FirstRun
InitRace == InitWith(RacePayloads) /\ NoOutput /\ FirstRun
InitStop == InitWith(StopPayloads) /\ NoOutput /\ FirstRun

\* ------------------------------------------- the handler's own log records
LogRecord(type, message) == [type |-> type, message |-> message]

HtmlMissingRecord(p) ==
    LogRecord("error", IF p.runDownload THEN "HTML file required to download memories."
                       ELSE "HTML file required to add metadata.")

\* Mutant: the label without its frame.
StepRecordPlain(step) == LogRecord("info", step.label)

StepRecord(step) == LogRecord("info", "=== " \o step.label \o " ===")
StopAbortRecord == LogRecord("info", "Stop requested; aborting remaining steps.")
StopSkipRecord == LogRecord("info", "Stop requested; remaining steps skipped.")

\* ------------------------------------------------------ the workflow loop
\* The for loop of the workflow from iteration i on, given the run records,
\* the processes and the in-flight set the handler has produced so far.
WorkflowLoop(r, i, stop, baseRuns, baseProcs, baseActive) ==
    LET ss == baseRuns[r].steps IN
    IF i > Len(ss)
    THEN /\ runs' = [baseRuns EXCEPT ![r].pc = "done", ![r].exits = Append(@, ExitReply(0))]
         /\ procs' = baseProcs
         /\ activeProcesses' = baseActive
    ELSE IF stop
    THEN /\ runs' = [baseRuns EXCEPT ![r].pc = "done",
                                      ![r].log = Append(@, StopAbortRecord)]
         /\ procs' = baseProcs
         /\ activeProcesses' = baseActive
    ELSE LET ls == Launched(ss, i)
             n == Len(baseProcs)
         IN /\ runs' = [baseRuns EXCEPT
                           ![r].i = i + Len(ls) - 1,
                           ![r].log = @ \o [k \in 1..Len(ls) |-> StepRecord(ls[k])]]
            /\ procs' = baseProcs \o [k \in 1..Len(ls) |-> NewProc(r, ls[k])]
            /\ activeProcesses' = baseActive \cup ((n + 1)..(n + Len(ls)))

\* A run-script invocation: its steps, the index i of the step it awaits, the
\* script-exit replies it has sent (exits), the script-exit replies the stop
\* handler sent while it was in progress (acks) and the script-log records
\* the handler itself has sent (log).
NewRun(mode, ss) ==
    [mode |-> mode, steps |-> ss, i |-> 0, pc |-> "await",
     exits |-> <<>>, acks |-> {}, stopSeen |-> FALSE, log |-> <<>>]

\* ipcMain.on('run-script') with payload.workflow set.
RunWorkflow(limit) ==
    /\ Len(runs) < limit
    /\ stopRequested' = FALSE
    /\ IF HtmlMissing(payload)
       THEN /\ runs' = Append(runs, [NewRun("workflow", <<>>) EXCEPT
                                        !.pc = "done", !.exits = <<ExitReply(1)>>,
                                        !.log = <<HtmlMissingRecord(payload)>>])
            /\ UNCHANGED <<procs, activeProcesses>>
       ELSE WorkflowLoop(Len(runs) + 1, 1, FALSE,
                         Append(runs, NewRun("workflow", steps(payload))),
                         procs, activeProcesses)
    /\ pythonCommand' = PythonCommand
    /\ UNCHANGED <<platform, payload, items, quitVars, env, existing, uiVars, logVars, pipeVars>>

\* ipcMain.on('run-script') in single command mode (legacy).
RunSingle(limit, command) ==
    /\ Len(runs) < limit
    /\ stopRequested' = FALSE
    /\ LET step == [label |-> command, command |-> command,
                    args |-> withOutput(payload.downloadFolder, <<>>)]
       IN /\ runs' = Append(runs, [NewRun("single", <<step>>) EXCEPT !.i = 1])
          /\ procs' = Append(procs, NewProc(Len(runs) + 1, step))
          /\ activeProcesses' = activeProcesses \cup {Len(procs) + 1}
    /\ pythonCommand' = PythonCommand
    /\ UNCHANGED <<platform, payload, items, quitVars, env, existing, uiVars, logVars, pipeVars>>

\* The code after `await runApi(...)` of run r, resumed with the exit code.
Continue(r, code, baseProcs, baseActive) ==
    IF runs[r].pc # "await"
    THEN /\ procs' = baseProcs
         /\ activeProcesses' = baseActive
         /\ UNCHANGED runs
    ELSE IF runs[r].mode = "workflow"
    THEN IF stopRequested
         THEN /\ runs' = [runs EXCEPT ![r].pc = "done",
                                      ![r].log = Append(@, StopSkipRecord)]
              /\ procs' = baseProcs
              /\ activeProcesses' = baseActive
         ELSE IF code # 0
         THEN /\ runs' = [runs EXCEPT ![r].pc = "done",
                                      ![r].exits = Append(@, ExitReply(code))]
              /\ procs' = baseProcs
              /\ activeProcesses' = baseActive
         ELSE WorkflowLoop(r, runs[r].i + 1, stopRequested, runs, baseProcs, baseActive)
    ELSE /\ runs' = [runs EXCEPT ![r].pc = "done",
                                 ![r].exits = IF stopRequested THEN @
                                              ELSE Append(@, ExitReply(code))]
         /\ procs' = baseProcs
         /\ activeProcesses' = baseActive

\* The listeners of child p's 'exit' event: trackProcess's listener removes p
\* from the in-flight set and runApi's promise resolves.  A SIGTERM timer
\* still pending for p will find an exited child and change nothing, so it is
\* dropped here.
OnExit(p, code) ==
    /\ LET pr == [procs EXCEPT ![p].state = "exited", ![p].code = code, ![p].timer = FALSE]
           ap == IF "exit" \in UntrackOn THEN activeProcesses \ {p} ELSE activeProcesses
       IN IF "exit" \in ResolveOn
          THEN Continue(procs[p].run, code, pr, ap)
          ELSE /\ procs' = pr
               /\ activeProcesses' = ap
               /\ UNCHANGED runs
    /\ UNCHANGED <<platform, payload, stopRequested>>

\* Child p exits, at any time and with any code.
ProcExit(p, code) ==
    /\ procs[p].state = "running"
    /\ code \in ExitCodes
    /\ OnExit(p, code)
    /\ UNCHANGED <<items, quitVars, hostVars, uiVars, logVars, pipeVars>>

\* The listeners of child p's 'close' event: the same two, after 'exit'.
OnClose(p) ==
    /\ LET pr == [procs EXCEPT ![p].state = "closed"]
           ap == IF "close" \in UntrackOn THEN activeProcesses \ {p} ELSE activeProcesses
       IN IF "close" \in ResolveOn /\ "exit" \notin ResolveOn
          THEN Continue(procs[p].run, procs[p].code, pr, ap)
          ELSE /\ procs' = pr
               /\ activeProcesses' = ap
               /\ UNCHANGED runs
    /\ UNCHANGED <<platform, payload, stopRequested>>

\* The stdio streams of the exited child p have ended: it emits 'close'.
ProcClose(p) ==
    /\ procs[p].state = "exited"
    /\ ~MoreOn(stdout)
    /\ ~MoreOn(stderr)
    /\ OnClose(p)
    /\ UNCHANGED <<items, quitVars, hostVars, uiVars, logVars, pipeVars>>

\* --------------------------------------------------------------- stopping
\* Mutant: no termination on Windows.
TerminatePosixOnly(proc) ==
    IF platform = "win32"
    THEN proc
    ELSE [proc EXCEPT !.signal = "SIGINT", !.timer = TRUE]

\* What terminateActiveProcesses does to one in-flight child.
Terminate(proc) ==
    IF platform = "win32"
    THEN [proc EXCEPT !.signal = "taskkill /F"]
    ELSE [proc EXCEPT !.signal = "SIGINT", !.timer = TRUE]

terminateActiveProcesses ==
    [p \in 1..Len(procs) |->
        IF p \in activeProcesses THEN Terminate(procs[p]) ELSE procs[p]]

\* The 1500 ms timer of terminateActiveProcesses fires for child p.
SigTermTimer(p) ==
    /\ procs[p].timer
    /\ procs[p].state = "running"
    /\ procs' = [procs EXCEPT ![p].timer = FALSE, ![p].signal = "SIGTERM"]
    /\ UNCHANGED <<platform, payload, stopRequested, activeProcesses, runs, items,
                   quitVars, hostVars, uiVars, logVars, pipeVars>>

\* ipcMain.on('stop-script').
StopScript ==
    /\ stopRequested' = TRUE
    /\ procs' = terminateActiveProcesses
    /\ runs' = [r \in 1..Len(runs) |->
                  IF InProgress(r)
                  THEN [runs[r] EXCEPT !.stopSeen = TRUE, !.acks = @ \cup {StopReply}]
                  ELSE runs[r]]
    /\ UNCHANGED <<platform, payload, activeProcesses, items,
                   quitVars, hostVars, logVars, pipeVars>>

\* ------------------------------------------------- the download stage
\* The Download Manager that runs inside the download child (api.py is a
\* separate program; this is the stage as its design describes it).  A
\* unit of work takes one item from pending, streams it to a temporary path
\* ("writing"), renames it into the destination tree ("renamed") and then
\* marks its Ledger record done ("done").
Forced == {"taskkill /F", "SIGTERM"}
InUnit(it) == items[it] \in {"writing", "renamed"}
Downloading(p) == procs[p].state = "running" /\ procs[p].command = "download"
Unchanged ==
    UNCHANGED <<platform, payload, stopRequested, activeProcesses, procs, runs,
                quitVars, hostVars, uiVars, logVars, pipeVars>>

\* A free slot of the pool takes a pending item; none is dispatched once a
\* stop signal has arrived.
UnitFetch(p, it) ==
    /\ Downloading(p)
    /\ procs[p].signal = "none"
    /\ items[it] = "pending"
    /\ Cardinality({x \in Items : InUnit(x)}) < payload.workerCount
    /\ items' = [items EXCEPT ![it] = "writing"]
    /\ Unchanged

\* The fetch fails: an Error Record, the Ledger stage stays pending.
UnitFail(p, it) ==
    /\ Downloading(p)
    /\ items[it] = "writing"
    /\ items' = [items EXCEPT ![it] = "pending"]
    /\ Unchanged

UnitRename(p, it) ==
    /\ Downloading(p)
    /\ items[it] = "writing"
    /\ items' = [items EXCEPT ![it] = "renamed"]
    /\ Unchanged

UnitRecord(p, it) ==
    /\ Downloading(p)
    /\ items[it] = "renamed"
    /\ items' = [items EXCEPT ![it] = "done"]
    /\ Unchanged

\* The download child exits: by itself or on SIGINT between units, or at any
\* point once a forced termination has been sent.
WorkerExit(p, code) ==
    /\ Downloading(p)
    /\ \/ procs[p].signal = "none" /\ code = 0 /\ \A it \in Items : ~InUnit(it)
       \/ procs[p].signal = "SIGINT" /\ code \in {0, 1} /\ \A it \in Items : ~InUnit(it)
       \/ procs[p].signal \in Forced /\ code \in {1, NullCode}
    /\ OnExit(p, code)
    /\ UNCHANGED <<items, quitVars, hostVars, uiVars, logVars, pipeVars>>

\* -------------------------------------------------------- specifications
Handlers(limit) ==
    \/ RunWorkflow(limit)
    \/ \E c \in SingleCommands : RunSingle(limit, c)
    \/ \E p \in 1..Len(procs) : SigTermTimer(p)
    \/ StopScript /\ UNCHANGED uiVars

Next ==
    \/ Handlers(MaxRuns)
    \/ \E p \in 1..Len(procs) : \E code \in ExitCodes : ProcExit(p, code)

NextRace ==
    \/ Handlers(MaxRaceRuns)
    \/ \E p \in 1..Len(procs) : \E code \in ExitCodes : ProcExit(p, code)

NextStop ==
    \/ Handlers(MaxRuns)
    \/ \E p \in 1..Len(procs) : \E it \in Items : UnitFetch(p, it)
    \/ \E p \in 1..Len(procs) : \E it \in Items : UnitFail(p, it)
    \/ \E p \in 1..Len(procs) : \E it \in Items : UnitRename(p, it)
    \/ \E p \in 1..Len(procs) : \E it \in Items : UnitRecord(p, it)
    \/ \E p \in 1..Len(procs) : \E code \in ExitCodes : WorkerExit(p, code)

Spec == Init /\ [][Next]_vars
SpecStop == InitStop /\ [][NextStop]_vars
SpecRace == InitRace /\ [][NextRace]_vars

\* ------------------------------------------------- the output of a child
\* The text a child writes, as a sequence of characters.  "{", "}" and "t"
\* stand for themselves; inside braces "t" is read as the members
\* "type":"info","message":"t", so that {t} is a well-formed progress record,
\* {} is the empty JSON object, and anything else is no JSON at all.
Chars == {"{", "t", "}", " ", "\n"}
Streams == UNION {[1..n -> Chars] : n \in 0..MaxStream}

\* The k-th smallest member of a set of numbers.
Kth(S, k) == CHOOSE e \in S : Cardinality({x \in S : x <= e}) = k

\* The chunks in which a pipe delivers the stream s when it is cut after the
\* positions in C.
ChunksOf(s, C) ==
    IF s = <<>> THEN <<>>
    ELSE LET Ends == C \cup {Len(s)}
         IN [k \in 1..Cardinality(Ends) |->
                SubSeq(s, IF k = 1 THEN 1 ELSE Kth(Ends, k - 1) + 1, Kth(Ends, k))]

Chunkings(s) == {ChunksOf(s, C) : C \in SUBSET (1..(Len(s) - 1))}

RECURSIVE Concat(_)
Concat(chunks) == IF chunks = <<>> THEN <<>> ELSE Head(chunks) \o Concat(Tail(chunks))

\* String.prototype.split('\n').
RECURSIVE split(_)
split(s) ==
    IF \A k \in 1..Len(s) : s[k] # "\n" THEN <<s>>
    ELSE LET k == CHOOSE j \in 1..Len(s) :
                     s[j] = "\n" /\ \A h \in 1..(j - 1) : s[h] # "\n"
         IN <<SubSeq(s, 1, k - 1)>> \o split(SubSeq(s, k + 1, Len(s)))

\* String.prototype.trim().
RECURSIVE trim(_)
trim(s) ==
    IF s = <<>> THEN s
    ELSE IF Head(s) \in {" ", "\n"} THEN trim(Tail(s))
    ELSE IF s[Len(s)] \in {" ", "\n"} THEN trim(SubSeq(s, 1, Len(s) - 1))
    ELSE s

\* JSON.parse: white space between tokens is insignificant; the texts of the
\* alphabet that are JSON are {} and {t}; every other text throws.
Tokens(line) == SelectSeq(line, LAMBDA c : c \notin {" ", "\n"})
IsJson(line) == Tokens(line) \in {<<"{", "}">>, <<"{", "t", "}">>}
EmptyObject == [x \in {} |-> x]
JSONparse(line) ==
    IF Tokens(line) = <<"{", "t", "}">> THEN LogRecord("info", <<"t">>) ELSE EmptyObject

\* The replies of the stdout 'data' listener for one chunk.
OnStdoutData(data) ==
    LET lines == SelectSeq(split(data), LAMBDA line : trim(line) # <<>>)
    IN [k \in 1..Len(lines) |->
           IF IsJson(lines[k]) THEN JSONparse(lines[k])
           ELSE LogRecord("raw", lines[k])]

\* The reply of the stderr 'data' listener for one chunk.
OnStderrData(data) == LogRecord("error", data)

\* A 'data' event on the stdout of child p, whose streams can outlive it: they
\* stay open until 'close'.
StdoutData(p) ==
    /\ procs[p].state \in {"running", "exited"}
    /\ MoreOn(stdout)
    /\ scriptLog' = scriptLog \o OnStdoutData(stdout.chunks[stdout.next])
    /\ stdout' = [stdout EXCEPT !.next = @ + 1]
    /\ UNCHANGED <<platform, payload, stopRequested, activeProcesses, procs, runs,
                   items, quitVars, hostVars, uiVars, stderr, pipeVars>>

\* A 'data' event on the stderr of child p.
StderrData(p) ==
    /\ procs[p].state \in {"running", "exited"}
    /\ MoreOn(stderr)
    /\ scriptLog' = Append(scriptLog, OnStderrData(stderr.chunks[stderr.next]))
    /\ stderr' = [stderr EXCEPT !.next = @ + 1]
    /\ UNCHANGED <<platform, payload, stopRequested, activeProcesses, procs, runs,
                   items, quitVars, hostVars, uiVars, stdout, pipeVars>>

\* The payloads of SpecLog: one stage, whose child writes the output.
LogPayloads ==
    {p \in RacePayloads : /\ p.runCombine /\ ~p.runDownload /\ ~p.runMetadata
                          /\ ~p.runDedupe /\ p.htmlFile = ""}

ErrChunks == {<<>>, <<<<"t">>>>}

InitLog ==
    /\ InitWith(LogPayloads)
    /\ FirstRun
    /\ \E s \in Streams : \E chunks \in Chunkings(s) : stdout = Pipe(chunks)
    /\ \E chunks \in ErrChunks : stderr = Pipe(chunks)
    /\ scriptLog = <<>>

NextLog ==
    \/ RunWorkflow(MaxRuns)
    \/ \E p \in 1..Len(procs) : StdoutData(p)
    \/ \E p \in 1..Len(procs) : StderrData(p)
    \/ \E p \in 1..Len(procs) : \E code \in ExitCodes : ProcExit(p, code)
    \/ \E p \in 1..Len(procs) : ProcClose(p)

SpecLog == InitLog /\ [][NextLog]_vars

\* --------------------------------------------------------------- quitting
\* The buttons of the quit dialog: 0 is Cancel, 1 is Quit.
Buttons == {0, 1}
confirmQuitSync(res) == res = 1

\* Mutant: the listeners ask and terminate whether or not a quit was confirmed.
OnQuitEventAlwaysAsks(res) ==
    IF ~confirmQuitSync(res)
    THEN /\ quitEvent' = "prevented"
         /\ UNCHANGED <<isQuitting, procs>>
    ELSE /\ isQuitting' = TRUE
         /\ procs' = terminateActiveProcesses
         /\ quitEvent' = "proceeded"

\* The body the 'close' and 'before-quit' listeners share.  An event that is
\* not prevented proceeds to its default: the window closes, the app quits.
OnQuitEvent(res) ==
    IF isQuitting
    THEN /\ quitEvent' = "proceeded"
         /\ UNCHANGED <<isQuitting, procs>>
    ELSE IF ~confirmQuitSync(res)
    THEN /\ quitEvent' = "prevented"
         /\ UNCHANGED <<isQuitting, procs>>
    ELSE /\ isQuitting' = TRUE
         /\ procs' = terminateActiveProcesses
         /\ quitEvent' = "proceeded"

\* mainWindow.on('close'): the user closes the window, or a confirmed quit does.
WindowClose(res) ==
    /\ mainWindow = "open"
    /\ OnQuitEvent(res)
    /\ mainWindow' = IF quitEvent' = "proceeded" THEN "closed" ELSE "open"
    /\ UNCHANGED <<platform, payload, stopRequested, activeProcesses, runs, items,
                   app, hostVars, uiVars, logVars, pipeVars>>

\* app.on('before-quit'): the user quits the app, or the closed window does.
BeforeQuit(res) ==
    /\ OnQuitEvent(res)
    /\ UNCHANGED <<platform, payload, stopRequested, activeProcesses, runs, items,
                   mainWindow, app, hostVars, uiVars, logVars, pipeVars>>

\* The payloads of SpecQuit: a download, alone or followed by combine.
QuitPayloads ==
    {p \in RacePayloads : /\ p.runDownload /\ ~p.runMetadata /\ ~p.runDedupe
                           /\ p.htmlFile # ""}

InitQuit == InitWith(QuitPayloads) /\ NoOutput /\ FirstRun

\* The renderer sends its requests while the window is open.
NextQuit ==
    \/ mainWindow = "open" /\ RunWorkflow(MaxRuns)
    \/ mainWindow = "open" /\ \E c \in SingleCommands : RunSingle(MaxRuns, c)
    \/ mainWindow = "open" /\ StopScript /\ UNCHANGED uiVars
    \/ \E p \in 1..Len(procs) : SigTermTimer(p)
    \/ \E p \in 1..Len(procs) : \E code \in ExitCodes : ProcExit(p, code)
    \/ \E res \in Buttons : WindowClose(res)
    \/ \E res \in Buttons : BeforeQuit(res)

SpecQuit == InitQuit /\ [][NextQuit]_vars

\* ------------------------------------------------------- the end of the app
\* A quit that went through: the window has closed, 'window-all-closed' calls
\* app.quit(), 'before-quit' passes because isQuitting is set, and the main
\* process ends.  Its pending timers end with it.
AppQuit ==
    /\ app = "ready"
    /\ isQuitting
    /\ mainWindow = "closed"
    /\ app' = "quit"
    /\ UNCHANGED <<platform, payload, stopRequested, activeProcesses, procs, runs, items,
                   isQuitting, mainWindow, quitEvent, hostVars, uiVars, logVars, pipeVars>>

\* Child p ends after the main process has: no listener is left to run.
ChildDies(p, code) ==
    /\ app = "quit"
    /\ procs[p].state = "running"
    /\ procs' = [procs EXCEPT ![p].state = "exited", ![p].code = code, ![p].timer = FALSE]
    /\ UNCHANGED <<platform, payload, stopRequested, activeProcesses, runs, items,
                   quitVars, hostVars, uiVars, logVars, pipeVars>>

\* The children a run of SpecTerm can spawn.
Children == 1..(2 * MaxRuns)

InitTerm == InitWith(QuitPayloads) /\ NoOutput /\ FirstRun

NextTerm ==
    \/ app = "ready" /\ mainWindow = "open" /\ RunWorkflow(MaxRuns)
    \/ app = "ready" /\ mainWindow = "open" /\ StopScript /\ UNCHANGED uiVars
    \/ \E p \in 1..Len(procs) : app = "ready" /\ SigTermTimer(p)
    \/ \E p \in 1..Len(procs) : \E code \in ExitCodes : app = "ready" /\ ProcExit(p, code)
    \/ \E res \in Buttons : WindowClose(res)
    \/ \E res \in Buttons : app = "ready" /\ BeforeQuit(res)
    \/ AppQuit
    \/ \E p \in 1..Len(procs) : \E code \in ExitCodes : ChildDies(p, code)

\* The 1500 ms timer of a live main process fires.
TimerFires(p) == p \in 1..Len(procs) /\ app = "ready" /\ SigTermTimer(p)

\* A child that was sent SIGTERM or a forced taskkill ends.  The signal field
\* holds the last signal sent, and a later SIGINT does not undo a SIGTERM, so
\* the fairness of this action is strong.
ForcedExit(p) ==
    /\ p \in 1..Len(procs)
    /\ procs[p].signal \in {"taskkill /F", "SIGTERM"}
    /\ \E code \in ExitCodes : (app = "ready" /\ ProcExit(p, code)) \/ ChildDies(p, code)

SpecTerm ==
    /\ InitTerm
    /\ [][NextTerm]_vars
    /\ \A p \in Children : WF_vars(TimerFires(p)) /\ SF_vars(ForcedExit(p))

\* ------------------------------------------------------- the stage children
\* The stages that run inside the children (api.py is a separate program;
\* these are the stages as their design describes them).  Every work item is
\* a layered one.  The download stage leaves the extracted staging members of
\* an item, the combine stage its composite, the metadata stage the tags in the
\* output file; each stage marks its Ledger stage done after that.  The dedupe
\* stage reads the tree only and deletes the staging members of an item that
\* has its composite.
LedgerStages == {"downloaded", "combined", "metadata-written"}
Artifacts == {"staging", "composite", "tags"}

StageOf(command) ==
    CASE command = "download" -> "downloaded"
      [] command = "combine" -> "combined"
      [] command = "metadata" -> "metadata-written"
      [] OTHER -> "none"

ArtifactOf(command) ==
    CASE command = "download" -> "staging"
      [] command = "combine" -> "composite"
      [] command = "metadata" -> "tags"
      [] OTHER -> "none"

\* Mutant: the download stage does not consult the Ledger.
EligibleAlways(command, it) ==
    CASE command = "download" -> TRUE
      [] command = "combine" -> "downloaded" \in ledger[it] /\ "combined" \notin ledger[it]
      [] command = "metadata" -> "combined" \in ledger[it] /\ "metadata-written" \notin ledger[it]
      [] OTHER -> {"staging", "composite"} \subseteq disk[it]

\* The items a stage processes: is_done, and the stage each stage builds on.
Eligible(command, it) ==
    CASE command = "download" -> "downloaded" \notin ledger[it]
      [] command = "combine" -> "downloaded" \in ledger[it] /\ "combined" \notin ledger[it]
      [] command = "metadata" -> "combined" \in ledger[it] /\ "metadata-written" \notin ledger[it]
      [] OTHER -> {"staging", "composite"} \subseteq disk[it]

Working(p) == procs[p].state = "running"
PoolSize == IF payload.workerCount # 0 THEN payload.workerCount ELSE MaxItems
Batch(p) == {it \in Items : <<p, it>> \in work}
Failed(p) == {it \in Items : <<p, it>> \in errors}

PipeUnchanged ==
    UNCHANGED <<platform, payload, stopRequested, activeProcesses, procs, runs, items,
                quitVars, hostVars, uiVars, logVars>>

\* Mutant: a unit of work started without a free worker.
UnitStartUnbounded(p, it) ==
    /\ Working(p)
    /\ procs[p].command # "dedupe"
    /\ Eligible(procs[p].command, it)
    /\ units[it] = "idle"
    /\ <<p, it>> \notin work
    /\ units' = [units EXCEPT ![it] = "busy"]
    /\ work' = work \cup {<<p, it>>}
    /\ UNCHANGED <<ledger, disk, errors>>
    /\ PipeUnchanged

\* A free worker of child p takes item it: the fetch or the tool is invoked.
UnitStart(p, it) ==
    /\ Working(p)
    /\ procs[p].command # "dedupe"
    /\ Eligible(procs[p].command, it)
    /\ units[it] = "idle"
    /\ <<p, it>> \notin work
    /\ Cardinality({x \in Items : units[x] # "idle"}) < PoolSize
    /\ units' = [units EXCEPT ![it] = "busy"]
    /\ work' = work \cup {<<p, it>>}
    /\ UNCHANGED <<ledger, disk, errors>>
    /\ PipeUnchanged

\* The unit fails: an Error Record, and the Ledger stage stays as it is.
UnitFailure(p, it) ==
    /\ Working(p)
    /\ <<p, it>> \in work
    /\ units[it] = "busy"
    /\ units' = [units EXCEPT ![it] = "idle"]
    /\ errors' = errors \cup {<<p, it>>}
    /\ UNCHANGED <<ledger, disk, work>>
    /\ PipeUnchanged

\* The unit's output artifact is put in place (an atomic rename).
UnitOutput(p, it) ==
    /\ Working(p)
    /\ <<p, it>> \in work
    /\ units[it] = "busy"
    /\ units' = [units EXCEPT ![it] = "made"]
    /\ disk' = [disk EXCEPT ![it] = @ \cup {ArtifactOf(procs[p].command)}]
    /\ UNCHANGED <<ledger, work, errors>>
    /\ PipeUnchanged

\* Mutant: the Ledger stage marked done before the output is in place.
UnitRecordedEarly(p, it) ==
    /\ Working(p)
    /\ <<p, it>> \in work
    /\ units[it] = "busy"
    /\ units' = [units EXCEPT ![it] = "idle"]
    /\ ledger' = [ledger EXCEPT ![it] = @ \cup {StageOf(procs[p].command)}]
    /\ UNCHANGED <<disk, work, errors>>
    /\ PipeUnchanged

\* Ledger.record(identifier, stage, done), an atomic replace of the store.
UnitRecorded(p, it) ==
    /\ Working(p)
    /\ <<p, it>> \in work
    /\ units[it] = "made"
    /\ units' = [units EXCEPT ![it] = "idle"]
    /\ ledger' = [ledger EXCEPT ![it] = @ \cup {StageOf(procs[p].command)}]
    /\ UNCHANGED <<disk, work, errors>>
    /\ PipeUnchanged

\* Mutant: the staging members deleted whether or not a composite exists.
DedupeUnitAnyStaging(p, it) ==
    /\ Working(p)
    /\ procs[p].command = "dedupe"
    /\ "staging" \in disk[it]
    /\ disk' = [disk EXCEPT ![it] = @ \ {"staging"}]
    /\ work' = work \cup {<<p, it>>}
    /\ UNCHANGED <<ledger, units, errors>>
    /\ PipeUnchanged

\* The dedupe child deletes the staging members of an item with a composite.
DedupeUnit(p, it) ==
    /\ Working(p)
    /\ procs[p].command = "dedupe"
    /\ Eligible("dedupe", it)
    /\ disk' = [disk EXCEPT ![it] = @ \ {"staging"}]
    /\ work' = work \cup {<<p, it>>}
    /\ UNCHANGED <<ledger, units, errors>>
    /\ PipeUnchanged

\* Mutant: the stage ends at the first failed unit.
StageEndAtFailure(p, code) ==
    /\ Working(p)
    /\ \A it \in Items : units[it] = "idle"
    /\ \/ \A it \in Items : Eligible(procs[p].command, it) => <<p, it>> \in work
       \/ Failed(p) # {}
    /\ code \in (IF Failed(p) = {} THEN {0} ELSE {0, 1})
    /\ OnExit(p, code)
    /\ UNCHANGED <<items, quitVars, hostVars, uiVars, logVars, pipeVars>>

\* The child has gone through its batch and exits: every item of the batch
\* was processed or has failed.
StageEnd(p, code) ==
    /\ Working(p)
    /\ \A it \in Items : units[it] = "idle"
    /\ \A it \in Items : Eligible(procs[p].command, it) => <<p, it>> \in work
    /\ code \in (IF Failed(p) = {} THEN {0} ELSE {0, 1})
    /\ OnExit(p, code)
    /\ UNCHANGED <<items, quitVars, hostVars, uiVars, logVars, pipeVars>>

\* The child is killed, at any point: the units in hand are lost, the files
\* and the Ledger stay as they are.
StageKill(p) ==
    /\ Working(p)
    /\ OnExit(p, NullCode)
    /\ units' = [it \in Items |-> "idle"]
    /\ UNCHANGED <<items, quitVars, hostVars, uiVars, logVars, ledger, disk, work, errors>>

\* The payloads of SpecPipe, a run of all four stages, and those of
\* SpecRerun, runs of one stage.
PipePayloads ==
    {p \in RacePayloads : p.htmlFile # "" /\ \A c \in Commands : Selects(p, c)}

\* The payloads of SpecPool: all four stages with a pool of one worker.
PoolPayloads == {[p EXCEPT !.workerCount = 1] : p \in PipePayloads}

RerunPayloads ==
    {p \in RacePayloads :
        p.htmlFile # "" /\ Cardinality({c \in Commands : Selects(p, c)}) = 1}

\* What earlier runs can have left of an item.
Left(stages, files) == [ledger |-> stages, disk |-> files]
ItemStates ==
    {Left({}, {}),
     Left({"downloaded"}, {"staging"}),
     Left({"downloaded", "combined"}, {"staging", "composite"}),
     Left(LedgerStages, Artifacts)}

InitStages(ps) ==
    /\ InitWith(ps)
    /\ platform = "posix"
    /\ NoOutput
    /\ \E left \in [Items -> ItemStates] :
          /\ ledger = [it \in Items |-> left[it].ledger]
          /\ disk = [it \in Items |-> left[it].disk]
    /\ units = [it \in Items |-> "idle"]
    /\ work = {}
    /\ errors = {}

InitPipe == InitStages(PipePayloads)
InitRerun == InitStages(RerunPayloads)
InitPool == InitStages(PoolPayloads)

\* The user starts a run when none is in progress.
PipeRun(limit) ==
    /\ \A r \in 1..Len(runs) : ~InProgress(r)
    /\ RunWorkflow(limit)

StageSteps ==
    \/ \E p \in 1..Len(procs) : \E it \in Items : UnitStart(p, it)
    \/ \E p \in 1..Len(procs) : \E it \in Items : UnitFailure(p, it)
    \/ \E p \in 1..Len(procs) : \E it \in Items : UnitOutput(p, it)
    \/ \E p \in 1..Len(procs) : \E it \in Items : UnitRecorded(p, it)
    \/ \E p \in 1..Len(procs) : \E it \in Items : DedupeUnit(p, it)
    \/ \E p \in 1..Len(procs) : \E code \in ExitCodes : StageEnd(p, code)
    \/ \E p \in 1..Len(procs) : StageKill(p)

NextPipe == PipeRun(MaxRuns) \/ StageSteps
NextRerun == PipeRun(MaxReruns) \/ StageSteps

SpecPipe == InitPipe /\ [][NextPipe]_vars
SpecRerun == InitRerun /\ [][NextRerun]_vars
SpecPool == InitPool /\ [][NextPipe]_vars

\* ------------------------------------------------------ the in-flight set
\* The main process with both events of every child: runs, stops, exits and
\* closes.
InitTrack == InitWith(QuitPayloads) /\ NoOutput /\ FirstRun

NextTrack ==
    \/ Handlers(MaxRuns)
    \/ \E p \in 1..Len(procs) : \E code \in ExitCodes : ProcExit(p, code)
    \/ \E p \in 1..Len(procs) : ProcClose(p)

SpecTrack == InitTrack /\ [][NextTrack]_vars

\* ------------------------------------------------------------ the renderer
\* The payloads the page sends: an HTML file is chosen (the Start button is
\* disabled without one), a stage is selected and no worker count is sent.
UIPayloads ==
    {p \in Payloads : /\ p.htmlFile # "" /\ p.downloadFolder = "out"
                      /\ p.workerCount = 0 /\ ~p.dryRun
                      /\ p.runDownload /\ ~p.runMetadata /\ ~p.runDedupe}

\* The script-exit replies the run handlers have sent so far.
RECURSIVE ExitsSent(_)
ExitsSent(rs) == IF rs = <<>> THEN 0 ELSE Len(Head(rs).exits) + ExitsSent(Tail(rs))

\* The two guards of startProcess: nothing selected, or no HTML file for a
\* download or metadata step.  Each logs an error on the page and returns.
StartRejected(p) ==
    \/ ~p.runDownload /\ ~p.runMetadata /\ ~p.runCombine /\ ~p.runDedupe
    \/ p.htmlFile = "" /\ (p.runDownload \/ p.runMetadata)

\* startProcess, from the Start button, which is disabled without an HTML
\* file and while isRunning is true.
StartProcess(limit) ==
    /\ payload.htmlFile # ""
    /\ ~isRunning
    /\ requested < limit
    /\ IF StartRejected(payload)
       THEN UNCHANGED <<isRunning, requested>>
       ELSE /\ isRunning' = TRUE
            /\ requested' = requested + 1
    /\ UNCHANGED <<platform, payload, stopRequested, activeProcesses, procs, runs, items,
                   quitVars, hostVars, handledExits, logVars, pipeVars>>

\* The run-script request of the page reaches the main process.
RunRequested(limit) ==
    /\ Len(runs) < requested
    /\ RunWorkflow(limit)

\* stopProcess, from the Stop button, which is rendered while isRunning is
\* true: the main process handles stop-script and the page handles its
\* script-exit -1 reply.
StopProcess ==
    /\ isRunning
    /\ StopScript
    /\ isRunning' = FALSE
    /\ UNCHANGED <<requested, handledExits>>

\* handleExit for a script-exit reply of a run handler.
HandleExit ==
    /\ handledExits < ExitsSent(runs)
    /\ isRunning' = FALSE
    /\ handledExits' = handledExits + 1
    /\ UNCHANGED <<platform, payload, stopRequested, activeProcesses, procs, runs, items,
                   quitVars, hostVars, requested, logVars, pipeVars>>

InitUI == InitWith(UIPayloads) /\ NoOutput /\ FirstRun

NextUI ==
    \/ StartProcess(MaxRaceRuns)
    \/ RunRequested(MaxRaceRuns)
    \/ StopProcess
    \/ HandleExit
    \/ \E p \in 1..Len(procs) : SigTermTimer(p)
    \/ \E p \in 1..Len(procs) : \E code \in ExitCodes : ProcExit(p, code)

SpecUI == InitUI /\ [][NextUI]_vars

\* ------------------------------------------------- installing dependencies
\* process.platform as the install handler tells it apart.
InstallPlatforms == {"darwin", "win32", "linux"}

ChmodStep == [label |-> "chmod", command |-> "chmod", args |-> <<"+x", "installer.sh">>]
OpenStep ==
    [label |-> "open", command |-> "open", args |-> <<"-a", "Terminal", "installer.sh">>]
InstallerStep ==
    [label |-> "installer", command |-> "powershell.exe",
     args |-> <<"-NoProfile", "-ExecutionPolicy", "Bypass", "-File", "installer.ps1">>]

\* `${code}` in a template string.
CodeText(code) == CASE code = 0 -> "0" [] code = 1 -> "1" [] code = NullCode -> "null"

ChmodFailedRecord ==
    LogRecord("error", "Failed to make installer executable. Please try running manually.")
LaunchRecords ==
    <<LogRecord("info", "Launching installer in Terminal..."),
      LogRecord("info", "Please follow the instructions in the new Terminal window.")>>
InstallSuccessRecord == LogRecord("success", "Installation completed successfully!")
InstallErrorRecord(code) == LogRecord("error", "Installer exited with code " \o CodeText(code))

\* The records of the branch for Linux and others: the message and the lines
\* of the detail.
LinuxRecords ==
    LET message == "Manual setup required on Linux (GUI will not proceed until installed)."
        detail ==
            <<"REQUIRED:",
              " - Python 3.10+ and pip",
              "   Ubuntu/Debian: sudo apt update && sudo apt install python3 python3-pip python3-venv",
              " - exiftool (write GPS metadata to files)",
              "   Ubuntu/Debian: sudo apt install exiftool",
              " - ffmpeg (combine video overlays)",
              "   Ubuntu/Debian: sudo apt install ffmpeg",
              "",
              "Setup steps:",
              " 1) Create and activate a virtual environment:",
              "    python3 -m venv .venv",
              "    source .venv/bin/activate",
              " 2) Install Python requirements:",
              "    pip install -r requirements.txt",
              " 3) Run the orchestrator:",
              "    python3 run_all.py">>
    IN <<LogRecord("info", message)>> \o [k \in 1..Len(detail) |-> LogRecord("log", detail[k])]

\* ipcMain.on('install-dependencies'): chmod on macOS, the tracked PowerShell
\* installer on Windows, the instructions elsewhere.  stopRequested is left
\* as it is.
InstallDependencies(limit) ==
    /\ Len(runs) < limit
    /\ IF platform = "darwin"
       THEN /\ runs' = Append(runs, [NewRun("install", <<ChmodStep>>) EXCEPT !.i = 1])
            /\ procs' = Append(procs, NewProc(Len(runs) + 1, ChmodStep))
            /\ UNCHANGED activeProcesses
       ELSE IF platform = "win32"
       THEN /\ runs' = Append(runs, [NewRun("install", <<InstallerStep>>) EXCEPT !.i = 1])
            /\ procs' = Append(procs, NewProc(Len(runs) + 1, InstallerStep))
            /\ activeProcesses' = activeProcesses \cup {Len(procs) + 1}
       ELSE /\ runs' = Append(runs, [NewRun("install", <<>>) EXCEPT
                                        !.pc = "done", !.log = LinuxRecords,
                                        !.exits = <<ExitReply(0)>>])
            /\ UNCHANGED <<procs, activeProcesses>>
    /\ UNCHANGED <<platform, payload, stopRequested, items, quitVars, hostVars, logVars, pipeVars>>

\* runInstaller, from the Setup Environment button, and the handler of the
\* request it sends.
RunInstaller(limit) ==
    /\ ~isRunning
    /\ isRunning' = TRUE
    /\ InstallDependencies(limit)
    /\ UNCHANGED <<requested, handledExits>>

\* A child of an install request ends: 'exit', on which trackProcess forgets it.
InstallExit(p, code) ==
    /\ procs[p].state = "running"
    /\ procs' = [procs EXCEPT ![p].state = "exited", ![p].code = code, ![p].timer = FALSE]
    /\ activeProcesses' = activeProcesses \ {p}
    /\ UNCHANGED <<platform, payload, stopRequested, runs, items,
                   quitVars, hostVars, uiVars, logVars, pipeVars>>

\* The 'close' listener of chmod (macOS) or of the installer (Windows).
InstallClose(p) ==
    /\ procs[p].state = "exited"
    /\ LET r == procs[p].run
           code == procs[p].code
           closed == [procs EXCEPT ![p].state = "closed"]
       IN IF procs[p].command = "chmod"
          THEN IF code # 0
               THEN /\ runs' = [runs EXCEPT ![r].pc = "done",
                                            ![r].log = Append(@, ChmodFailedRecord),
                                            ![r].exits = Append(@, ExitReply(code))]
                    /\ procs' = closed
               ELSE /\ runs' = [runs EXCEPT ![r].pc = "done",
                                            ![r].log = @ \o LaunchRecords,
                                            ![r].exits = Append(@, ExitReply(0))]
                    /\ procs' = Append(closed, NewProc(r, OpenStep))
          ELSE IF procs[p].command = "powershell.exe"
          THEN /\ runs' = [runs EXCEPT
                              ![r].pc = "done",
                              ![r].log = Append(@, IF code = 0 THEN InstallSuccessRecord
                                                   ELSE InstallErrorRecord(code)),
                              ![r].exits = Append(@, ExitReply(code))]
               /\ procs' = closed
          ELSE /\ procs' = closed
               /\ UNCHANGED runs
    /\ activeProcesses' = activeProcesses \ {p}
    /\ UNCHANGED <<platform, payload, stopRequested, items,
                   quitVars, hostVars, uiVars, logVars, pipeVars>>

InitInstall ==
    /\ platform \in InstallPlatforms
    /\ payload \in UIPayloads
    /\ stopRequested = FALSE
    /\ activeProcesses = {}
    /\ procs = <<>>
    /\ runs = <<>>
    /\ items = [it \in Items |-> "pending"]
    /\ isQuitting = FALSE
    /\ mainWindow = "open"
    /\ quitEvent = "none"
    /\ app = "ready"
    /\ env = NativeEnv(platform)
    /\ existing = {}
    /\ pythonCommand = <<>>
    /\ isRunning = FALSE
    /\ requested = 0
    /\ handledExits = 0
    /\ NoOutput
    /\ FirstRun

NextInstall ==
    \/ RunInstaller(MaxRaceRuns)
    \/ StopProcess
    \/ HandleExit
    \/ \E p \in 1..Len(procs) : \E code \in ExitCodes : InstallExit(p, code)
    \/ \E p \in 1..Len(procs) : InstallClose(p)

SpecInstall == InitInstall /\ [][NextInstall]_vars

\* --------------------------------------------- runs and the interpreter
\* The interpreters that can be there before anything runs, and a virtual
\* environment directory without its interpreter.
InitPython ==
    /\ platform \in Platforms
    /\ payload \in QuitPayloads
    /\ stopRequested = FALSE
    /\ activeProcesses = {}
    /\ procs = <<>>
    /\ runs = <<>>
    /\ items = [it \in Items |-> "pending"]
    /\ isQuitting = FALSE
    /\ mainWindow = "open"
    /\ quitEvent = "none"
    /\ app = "ready"
    /\ env \in Envs(platform)
    /\ existing \in SUBSET {VenvPython(homeVenvPath), VenvPython(projectVenvPath),
                            InstallerVenvPath}
    /\ pythonCommand = <<>>
    /\ isRunning = FALSE
    /\ requested = 0
    /\ handledExits = 0
    /\ NoOutput
    /\ FirstRun

NextPython ==
    \/ RunWorkflow(MaxRuns)
    \/ InstallerVenv
    \/ \E p \in 1..Len(procs) : \E code \in ExitCodes : ProcExit(p, code)

SpecPython == InitPython /\ [][NextPython]_vars

\* ------------------------------------------------------ starting a run
\* Every selection the page can hold when Start is looked at: any steps, with
\* or without an HTML file.
StartPayloads ==
    {p \in Payloads : p.downloadFolder = "out" /\ p.workerCount = 0 /\ ~p.dryRun}

InitStart == InitWith(StartPayloads) /\ NoOutput /\ FirstRun

NextStart ==
    \/ StartProcess(MaxRuns)
    \/ RunRequested(MaxRuns)
    \/ StopProcess
    \/ HandleExit
    \/ \E p \in 1..Len(procs) : SigTermTimer(p)
    \/ \E p \in 1..Len(procs) : \E code \in ExitCodes : ProcExit(p, code)

SpecStart == InitStart /\ [][NextStart]_vars

\* ------------------------------------------------------------ the claims
Range(f) == {f[k] : k \in DOMAIN f}
IsPrefix(s, t) == Len(s) <= Len(t) /\ SubSeq(t, 1, Len(s)) = s
HasPair(args, a, b) == \E k \in 1..(Len(args) - 1) : args[k] = a /\ args[k + 1] = b

StageOrder == <<"download", "metadata", "combine", "dedupe">>

SelectedInOrder(p) == SelectSeq(StageOrder, LAMBDA c : Selects(p, c))

RunIds == 1..Len(runs)
Workflows == {r \in RunIds : runs[r].mode = "workflow"}
ProcIds == 1..Len(procs)
ProcsOf(r) == {p \in ProcIds : procs[p].run = r}

\* The commands of the children run r has spawned, in spawn order.
StartedStages(r) ==
    LET S == SelectSeq(procs, LAMBDA q : q.run = r)
    IN [k \in 1..Len(S) |-> S[k].command]

\* C1: in workflow mode the stages a run has started are, in spawn order, a
\* prefix of the selected stages listed in the order download, metadata,
\* combine, dedupe; so no unselected stage is ever started.
C1_FixedStageOrder ==
    \A r \in Workflows : IsPrefix(StartedStages(r), SelectedInOrder(payload))

\* A run that skipped the unselected metadata stage and went on to combine.
C1_Witness ==
    \E r \in Workflows :
        /\ ~payload.runMetadata
        /\ StartedStages(r) = <<"download", "combine", "dedupe">>

\* C2: a run spawns the child of its next stage only after the child of the
\* stage before has exited, so at most one child of a run is alive.
C2_OneStageAtATime ==
    \A p, q \in ProcIds :
        (p < q /\ procs[p].run = procs[q].run) => procs[p].state = "exited"

\* The second stage of a run is running.
C2_Witness ==
    \E p, q \in ProcIds :
        p < q /\ procs[p].run = procs[q].run /\ procs[q].state = "running"

\* C3: when a stage child of a workflow exits with a non-zero code and no stop
\* was requested during the run, no later stage of the run is started and the
\* run ends with one script-exit reply, carrying that code.
C3_AbortOnFailure ==
    \A p \in ProcIds :
        LET r == procs[p].run IN
        (/\ runs[r].mode = "workflow"
         /\ procs[p].state = "exited"
         /\ procs[p].code # 0
         /\ ~runs[r].stopSeen)
        => /\ \A q \in ProcsOf(r) : q <= p
           /\ runs[r].pc = "done"
           /\ runs[r].exits = <<procs[p].code>>

\* A stage killed by a signal (code null) with stages left to run.
C3_Witness ==
    \E p \in ProcIds :
        LET r == procs[p].run IN
        /\ runs[r].mode = "workflow"
        /\ procs[p].state = "exited"
        /\ procs[p].code = NullCode
        /\ ~runs[r].stopSeen
        /\ Len(StartedStages(r)) < Len(runs[r].steps)
        /\ Len(StartedStages(r)) > 1

\* Every selected stage of run r was started and exited with code 0.
AllStagesExitedZero(r) ==
    /\ Len(StartedStages(r)) = Len(SelectedInOrder(payload))
    /\ \A p \in ProcsOf(r) : procs[p].state = "exited" /\ procs[p].code = 0

\* C4: a workflow run replies script-exit 0 if and only if every selected
\* stage was started, each exited with code 0, and no stop was requested
\* during the run.
C4_ExitZeroIffAllSucceeded ==
    \A r \in Workflows :
        (0 \in Range(runs[r].exits)) <=> (AllStagesExitedZero(r) /\ ~runs[r].stopSeen)

\* C5: a run that received a stop request while in progress is acknowledged
\* with script-exit -1 and sends no script-exit reply of its own.
C5_StopIsTheOnlyReply ==
    \A r \in RunIds :
        runs[r].stopSeen => (runs[r].acks = {0 - 1} /\ runs[r].exits = <<>>)

\* C6: once a stop request was received for a run, the run starts no further
\* stage.
C6_NoDispatchAfterStop ==
    [][\A r \in RunIds :
          runs[r].stopSeen => Len(StartedStages(r))' = Len(StartedStages(r))]_vars

\* C7: a stop request sends no forced termination to a child that is in the
\* middle of a unit of work, on either platform.
C7_NoForcedKillMidUnit ==
    \A p \in ProcIds :
        (procs[p].state = "running" /\ procs[p].signal \in Forced)
        => \A it \in Items : ~InUnit(it)

\* C8: when a download run was stopped and its child has exited, the stop was
\* acknowledged with script-exit -1 and exactly the items whose asset is in the
\* destination tree have their Ledger record marked done.  (A partial file
\* is at the temporary path and is no Output Asset.)
C8_StoppedBatchIsConsistent ==
    \A r \in RunIds :
        (runs[r].stopSeen /\ \A p \in ProcsOf(r) : procs[p].state = "exited")
        => /\ (0 - 1) \in runs[r].acks
           /\ \A it \in Items : (items[it] \in {"renamed", "done"}) <=> (items[it] = "done")

\* C9: in a dry-run workflow every started stage is invoked with --dry-run.
C9_DryRunReachesEveryStage ==
    payload.dryRun =>
        \A p \in ProcIds :
            runs[procs[p].run].mode = "workflow" => "--dry-run" \in Range(procs[p].args)

\* C10: every stage a workflow starts gets '--workers <count>' exactly when a
\* worker count is configured and '--output <folder>' exactly when a download
\* folder is configured.
C10_SharedRunConfiguration ==
    \A p \in ProcIds :
        runs[procs[p].run].mode = "workflow" =>
            LET args == procs[p].args IN
            /\ IF payload.workerCount # 0
               THEN HasPair(args, "--workers", ToString(payload.workerCount))
               ELSE "--workers" \notin Range(args)
            /\ IF payload.downloadFolder # ""
               THEN HasPair(args, "--output", payload.downloadFolder)
               ELSE "--output" \notin Range(args)

\* A workflow with a worker count and a folder has started two kinds of stage.
C10_Witness ==
    \E r \in Workflows :
        /\ payload.workerCount # 0
        /\ payload.downloadFolder # ""
        /\ StartedStages(r) = <<"metadata", "combine">>

\* The children of run r that run command c.
StageProcs(r, c) == {p \in ProcsOf(r) : procs[p].command = c}

\* C11 as stated: in a run that selects both combine and metadata, the
\* combine stage runs before the metadata stage, so a metadata child is
\* started only after a combine child of the run has exited.
C11_CombineBeforeMetadata ==
    \A r \in Workflows :
        (payload.runCombine /\ payload.runMetadata) =>
            \A m \in StageProcs(r, "metadata") :
                \E c \in StageProcs(r, "combine") : c < m /\ procs[c].state = "exited"

\* C11 amended: in a run that selects both combine and metadata, the
\* metadata stage runs before the combine stage, so a combine child is
\* started only after a metadata child of the run has exited.
C11_MetadataBeforeCombine ==
    \A r \in Workflows :
        (payload.runCombine /\ payload.runMetadata) =>
            \A c \in StageProcs(r, "combine") :
                \E m \in StageProcs(r, "metadata") : m < c /\ procs[m].state = "exited"

\* A run that selected both stages has started its combine stage.
C11_Witness ==
    \E r \in Workflows :
        /\ payload.runCombine /\ payload.runMetadata
        /\ StageProcs(r, "combine") # {}

\* C15: a workflow run that selects download or metadata without an HTML
\* file ends at once: its only log record is an error, its only reply is
\* script-exit 1, and it spawns no child of any stage, combine and dedupe
\* included.
C15_AbortWithoutHtmlFile ==
    \A r \in Workflows :
        ((payload.runDownload \/ payload.runMetadata) /\ payload.htmlFile = "")
        => /\ runs[r].pc = "done"
           /\ runs[r].exits = <<1>>
           /\ Len(runs[r].log) = 1
           /\ runs[r].log[1].type = "error"
           /\ ProcsOf(r) = {}

\* A run for metadata, combine and dedupe without an HTML file was requested.
C15_Witness ==
    \E r \in Workflows :
        /\ ~payload.runDownload /\ payload.runMetadata
        /\ payload.runCombine /\ payload.runDedupe
        /\ payload.htmlFile = ""
        /\ runs[r].exits = <<1>>

\* The text the child writes to its stdout, and the lines of it that are
\* neither blank nor JSON.
Written == Concat(stdout.chunks)
PlainLines == SelectSeq(split(Written), LAMBDA line : trim(line) # <<>> /\ ~IsJson(line))

\* C13: once the child's stdout has been delivered, the raw records on
\* script-log are, in order, one per non-blank line of stdout that is not
\* JSON, each with that line as its message.
C13_RawLinesVerbatim ==
    ~MoreOn(stdout) =>
        SelectSeq(scriptLog, LAMBDA rec : "type" \in DOMAIN rec /\ rec.type = "raw")
            = [k \in 1..Len(PlainLines) |-> LogRecord("raw", PlainLines[k])]

LogTypes == {"info", "error", "success", "log", "raw"}

\* C14: every record on script-log has a message and a type, and the type is
\* one of info, error, success, log and raw.
C14_ClosedRecordTypes ==
    \A k \in 1..Len(scriptLog) :
        /\ {"type", "message"} \subseteq DOMAIN scriptLog[k]
        /\ scriptLog[k].type \in LogTypes

\* C16: a 'close' or 'before-quit' event that the user confirms in the quit
\* dialog sends a termination signal to every child that is in the in-flight
\* set at that moment; one that the user cancels is prevented, leaves the
\* window open and signals no child.
C16_QuitConfirmation ==
    [][/\ (~isQuitting /\ isQuitting')
          => \A p \in activeProcesses : procs'[p].signal \in {"taskkill /F", "SIGINT"}
       /\ (quitEvent # "prevented" /\ quitEvent' = "prevented")
          => (procs' = procs /\ mainWindow' = "open" /\ ~isQuitting')]_vars

\* The quit was confirmed while a child was running that no stop request had
\* signalled, and the child has its termination signal.
C16_Witness ==
    /\ isQuitting
    /\ \E p \in ProcIds :
          /\ procs[p].state = "running"
          /\ p \in activeProcesses
          /\ ~runs[procs[p].run].stopSeen
          /\ procs[p].signal # "none"

AllFour == \A c \in Commands : Selects(payload, c)

\* C12: when a run of all four stages has ended with script-exit 0 and no
\* unit of work on an item failed in it, the item's Ledger record shows
\* downloaded, combined and metadata-written done.
C12_FullRunCompletesItem ==
    \A r \in Workflows : \A it \in Items :
        (/\ AllFour
         /\ runs[r].exits = <<0>>
         /\ \A p \in ProcsOf(r) : it \notin Failed(p))
        => ledger[it] = LedgerStages

C18_DoneImpliesOwnArtifact ==
    \A it \in Items : \A c \in Commands :
        StageOf(c) \in ledger[it] => ArtifactOf(c) \in disk[it]

\* C18 amended: a Ledger record shows combined or metadata-written done only
\* if the composite, or the tagged output, is on disk, and downloaded done
\* only if the staging members or the composite that replaced them are.
C18_DoneImpliesArtifact ==
    \A it \in Items :
        /\ "downloaded" \in ledger[it] => disk[it] \cap {"staging", "composite"} # {}
        /\ "combined" \in ledger[it] => "composite" \in disk[it]
        /\ "metadata-written" \in ledger[it] => "tags" \in disk[it]

\* The dedupe child was killed after it had deleted the staging members of an
\* item whose Ledger record shows downloaded done.
C18_Witness ==
    /\ \E p \in ProcIds :
          procs[p].command = "dedupe" /\ procs[p].state = "exited" /\ procs[p].code = NullCode
    /\ \E it \in Items :
          "downloaded" \in ledger[it] /\ "staging" \notin disk[it] /\ "composite" \in disk[it]

\* A later child than p has worked on item it.
WorkedOnLater(p, it) == \E q \in ProcIds : q > p /\ it \in Batch(q)

\* C19: when a download child has gone through its batch and exactly one
\* fetch of it failed, every other item of the batch is downloaded, the child
\* has written one Error Record, and the failed item's download stage stays
\* pending until a later run works on it.
C19_OneFailureIsIsolated ==
    \A p \in ProcIds :
        (/\ procs[p].command = "download"
         /\ procs[p].state = "exited"
         /\ procs[p].code # NullCode
         /\ Cardinality(Failed(p)) = 1)
        => /\ \A it \in Items : it \notin Failed(p) => "downloaded" \in ledger[it]
           /\ \A it \in Items \ Batch(p) : "staging" \in disk[it] \/ "composite" \in disk[it]
           /\ \A it \in Batch(p) \ Failed(p) : "staging" \in disk[it] \/ "composite" \in disk[it]
           /\ Cardinality({e \in errors : e[1] = p}) = 1
           /\ \A it \in Failed(p) : ~WorkedOnLater(p, it) => "downloaded" \notin ledger[it]

\* A download of MaxItems items has ended with one failed fetch.
C19_Witness ==
    \E p \in ProcIds :
        /\ procs[p].command = "download"
        /\ procs[p].state = "exited"
        /\ procs[p].code # NullCode
        /\ Batch(p) = Items
        /\ Cardinality(Failed(p)) = 1

\* Child p + 1 runs the stage of child p again, on what p left when it ended.
RunsAgain(p) ==
    /\ p + 1 \in ProcIds
    /\ procs[p + 1].command = procs[p].command
    /\ procs[p].code # NullCode
    /\ procs[p + 1].state = "exited"
    /\ procs[p + 1].code # NullCode

C21_NeverTheOnlyCopy ==
    [][\A it \in Items :
          /\ (disk'[it] \ disk[it] = {} /\ disk'[it] # disk[it])
             => /\ disk[it] \ disk'[it] = {"staging"}
                /\ "composite" \in disk'[it]
                /\ \E p \in ProcIds : Working(p) /\ procs[p].command = "dedupe"
          /\ (disk[it] \cap {"staging", "composite"} # {})
             => (disk'[it] \cap {"staging", "composite"} # {})]_vars

\* The dedupe child has ended: it deleted the staging members of an item that
\* has its composite and kept those of an item that was never combined.
C21_Witness ==
    /\ \E p \in ProcIds : procs[p].command = "dedupe" /\ procs[p].state = "exited"
    /\ \E it \in Items : disk[it] = {"staging"} /\ "downloaded" \in ledger[it]
    /\ \E it \in Items : "composite" \in disk[it] /\ "staging" \notin disk[it]

InHand == {it \in Items : units[it] # "idle"}

\* C22: after every step at most worker_count items are in the hands of the
\* workers; the step in which a unit of work fails or times out frees its
\* worker, writes an Error Record and leaves the Ledger as it is; and a child
\* ends its batch only when it has started a unit of work for every item the
\* stage can process, the ones behind a failed unit included.
C22_BoundedPoolAndRetryableFailure ==
    [][/\ Cardinality(InHand') <= payload.workerCount
       /\ \A p \in ProcIds : \A it \in Items :
             (<<p, it>> \in errors' /\ <<p, it>> \notin errors)
             => /\ it \in InHand /\ it \notin InHand'
                /\ ledger' = ledger
       /\ \A p \in ProcIds :
             (procs[p].state = "running" /\ procs'[p].state = "exited"
              /\ procs'[p].code # NullCode)
             => \A it \in Items : Eligible(procs[p].command, it) => it \in Batch(p)]_vars

\* With one worker and MaxItems items to download, the first unit failed and
\* the child went on to download another item before it ended.
C22_Witness ==
    \E p \in ProcIds :
        /\ payload.workerCount = 1
        /\ procs[p].command = "download"
        /\ procs[p].state = "exited"
        /\ procs[p].code # NullCode
        /\ Batch(p) = Items
        /\ Failed(p) # {}
        /\ \E it \in Items \ Failed(p) : "downloaded" \in ledger[it]

\* The script-exit replies attributable to run r: its own and the stop
\* handler's while it was in progress.
RepliesOf(r) == Len(runs[r].exits) + Cardinality(runs[r].acks)

\* C23: a run never has more than one script-exit reply, and a run that has
\* ended has exactly one.
C23_OneReplyPerRun ==
    \A r \in RunIds :
        /\ RepliesOf(r) <= 1
        /\ runs[r].pc = "done" => RepliesOf(r) = 1

Alive == {p \in ProcIds : procs[p].state = "running"}

\* C24: at most one child is alive at any time.
C24_OneChildAlive == Cardinality(Alive) <= 1

\* C25: isRunning is true while a child of the in-flight set is alive.
C25_RunningWhileChildAlive == (Alive \cap activeProcesses # {}) => isRunning

\* C26: once a quit has been confirmed, no run spawns a further child.
C26_NoSpawnAfterQuit ==
    [][isQuitting =>
          \A r \in RunIds : Len(StartedStages(r))' = Len(StartedStages(r))]_vars

\* C27: once every run has ended, no record of a child's output is delivered
\* on script-log any more.
C27_NoOutputAfterRunEnd ==
    [][(RunIds # {} /\ \A r \in RunIds : runs[r].pc = "done")
          => scriptLog' = scriptLog]_vars

JsonLines == SelectSeq(split(Written), LAMBDA line : trim(line) # <<>>)

\* C28: when every non-blank line of the child's stdout is a JSON record,
\* the records delivered from stdout are, in order, exactly those records,
\* however the stream was cut into chunks.
C28_OneRecordPerJsonLine ==
    (~MoreOn(stdout) /\ \A k \in 1..Len(JsonLines) : IsJson(JsonLines[k]))
        => SelectSeq(scriptLog, LAMBDA rec : "type" \notin DOMAIN rec \/ rec.type # "error")
               = [k \in 1..Len(JsonLines) |-> JSONparse(JsonLines[k])]

\* C30: the in-flight set holds exactly the children that were spawned and
\* have emitted neither 'exit' nor 'close'; when every child has exited it is
\* empty.
C30_InFlightSetIsExact ==
    /\ activeProcesses = {p \in ProcIds : procs[p].state = "running"}
    /\ (\A p \in ProcIds : procs[p].state # "running") => activeProcesses = {}

\* Two children spawned: one has exited and not closed yet, and the other is in
\* the set.
C30_Witness ==
    /\ \E p \in ProcIds : procs[p].state = "exited" /\ p \notin activeProcesses
    /\ \E p \in ProcIds : procs[p].state = "running" /\ p \in activeProcesses

\* The label main.js gives the step of a command, and its boundary record.
LabelOf(command) ==
    CASE command = "download" -> "Download Memories"
      [] command = "metadata" -> "Add GPS Metadata"
      [] command = "combine" -> "Combine Overlays"
      [] command = "dedupe" -> "Delete Duplicates"
Boundary(command) == LogRecord("info", "=== " \o LabelOf(command) \o " ===")
Boundaries == {Boundary(c) : c \in {"download", "metadata", "combine", "dedupe"}}

\* C29: the boundary records a workflow run has sent are, in order, one
\* '=== <label> ===' info record per stage it has started, and none for a
\* stage it has not started.
C29_OneBoundaryPerStartedStage ==
    \A r \in Workflows :
        SelectSeq(runs[r].log, LAMBDA rec : rec \in Boundaries)
            = [k \in 1..Len(StartedStages(r)) |-> Boundary(StartedStages(r)[k])]

\* A run that started two of its stages and ended before its third.
C29_Witness ==
    \E r \in Workflows :
        /\ Len(StartedStages(r)) = 2
        /\ Len(runs[r].steps) > 2
        /\ runs[r].pc = "done"
        /\ Len(SelectSeq(runs[r].log, LAMBDA rec : rec \in Boundaries)) = 2

\* C31: a child that was in the in-flight set when a stop request or a
\* confirmed quit signalled it eventually ends, given that a child ends once
\* it was sent SIGTERM or a forced taskkill.
C31_SignalledChildEnds ==
    \A p \in Children :
        (p \in ProcIds /\ procs[p].signal # "none")
            ~> (p \in ProcIds /\ procs[p].state # "running")

\* C32: once a quit has been confirmed, isQuitting stays true, and a later
\* 'close' or 'before-quit' event proceeds whatever the dialog would have
\* answered, without terminating the children again; the confirming event
\* itself calls terminateActiveProcesses.
C32_QuitConfirmedOnce ==
    [][/\ isQuitting => isQuitting'
       /\ (~isQuitting /\ isQuitting') => procs' = terminateActiveProcesses
       /\ \A res \in Buttons :
             (isQuitting /\ (WindowClose(res) \/ BeforeQuit(res)))
                 => (quitEvent' = "proceeded" /\ procs' = procs)]_vars

\* A quit was confirmed on 'before-quit', a run started after it, and the
\* window's 'close' event then passed and left the new child unsignalled.
C32_Witness ==
    /\ isQuitting
    /\ mainWindow = "closed"
    /\ Len(procs) >= 1
    /\ procs[1].state = "running"
    /\ procs[1].signal = "none"

Installs == {r \in RunIds : runs[r].mode = "install"}

\* C33: an install request has at most one script-exit reply, exactly one once
\* its handler is done, and on Windows the success record is in its log if and
\* only if the installer closed with code 0.
C33_OneReplyPerInstall ==
    \A r \in Installs :
        /\ RepliesOf(r) <= 1
        /\ runs[r].pc = "done" => RepliesOf(r) = 1
        /\ \A p \in ProcsOf(r) :
              (procs[p].command = "powershell.exe" /\ procs[p].state = "closed")
                  => ((InstallSuccessRecord \in Range(runs[r].log)) <=> (procs[p].code = 0))

\* C34: a run-script request chooses the interpreter of the home virtual
\* environment if it exists, else that of the project-local one if it exists,
\* else the system interpreter; on Windows the interpreter of the environment
\* the installer creates, when it exists, is the one chosen.
C34_InterpreterPriority ==
    [][Len(runs') > Len(runs) =>
          LET home == <<IF env.USERPROFILE # "" THEN env.USERPROFILE ELSE env.HOME,
                        "snapchat-memories-downloader", ".venv">>
              project == <<"baseDir", ".venv">>
              tail == IF platform = "win32" THEN <<"Scripts", "python.exe">>
                      ELSE <<"bin", "python3">>
          IN /\ pythonCommand' =
                   IF home \o tail \in existing THEN home \o tail
                   ELSE IF project \o tail \in existing THEN project \o tail
                   ELSE IF platform = "win32" THEN <<"python">> ELSE <<"python3">>
             /\ (platform = "win32" /\ InstallerPython \in existing)
                   => pythonCommand' = InstallerPython]_vars

\* On Windows the installer has created its environment next to a
\* project-local one, and a run has chosen the installer's interpreter.
C34_Witness ==
    /\ platform = "win32"
    /\ InstallerActivate \in existing
    /\ VenvPython(projectVenvPath) \in existing
    /\ Len(runs) >= 1
    /\ pythonCommand = InstallerPython

\* C35: while no run is in progress, the page can send a run-script request
\* if and only if a step is selected and an HTML file is chosen whenever
\* download or metadata is selected; a rejected start sends nothing and leaves
\* isRunning false.
C35_StartIffGuardsPass ==
    /\ (~isRunning /\ requested < MaxRuns) =>
          ((ENABLED (StartProcess(MaxRuns) /\ requested' = requested + 1))
              <=> /\ \E c \in Commands : Selects(payload, c)
                  /\ (payload.runDownload \/ payload.runMetadata) => payload.htmlFile # "")
    /\ requested = 0 => ~isRunning

====
